---- MODULE Spec2Model ----
(***************************************************************************)
(* Model of carbon-main-agent.py: the Lambda handler that routes a user    *)
(* message through the calculation agent and Bedrock, falls back to an SQS *)
(* queue when Bedrock throttles, and stores direct exchanges in DynamoDB.  *)
(*                                                                         *)
(* Several invocations of lambda_handler run concurrently (one per Lambda  *)
(* execution environment).  Each invocation is cut at its blocking calls   *)
(* to a collaborator: an action is the collaborator call together with all *)
(* the handler code that runs up to the next collaborator call or return.  *)
(* Text is a sequence of one-character strings, so that lower(), the `in`  *)
(* substring test, str(int) and f-string concatenation are computed.       *)
(***************************************************************************)
EXTENDS Integers, Sequences, FiniteSets, TLC

(* ------------------------------ bounds --------------------------------- *)

\* Number of handler invocations (each handles one event).  Invocation 1 is the
\* one under study and may receive any event of Events; the others are concurrent
\* traffic and receive an event of BackgroundEvents.
NumInvocations == 2

\* The millisecond wall clock takes the values 0 .. MaxClock.
MaxClock == 1

Invocations == 1..NumInvocations

(* ------------------------------- text ---------------------------------- *)

UpperCase ==
    << "A", "B", "C", "D", "E", "F", "G", "H", "I", "J", "K", "L", "M", "N", "O", "P", "Q", "R",
       "S", "T", "U", "V", "W", "X", "Y", "Z" >>

LowerCase ==
    << "a", "b", "c", "d", "e", "f", "g", "h", "i", "j", "k", "l", "m", "n", "o", "p", "q", "r",
       "s", "t", "u", "v", "w", "x", "y", "z" >>

Digits ==
    << "0", "1", "2", "3", "4", "5", "6", "7", "8", "9" >>

\* str.lower() on one character (ASCII letters).
lower_char(c) ==
    IF \E k \in 1..Len(UpperCase) : UpperCase[k] = c
    THEN LowerCase[CHOOSE k \in 1..Len(UpperCase) : UpperCase[k] = c]
    ELSE c

\* str.lower()
lower(s) == [k \in 1..Len(s) |-> lower_char(s[k])]

\* Python's `needle in s` for strings.
contains(needle, s) ==
    \E k \in 0..(Len(s) - Len(needle)) : SubSeq(s, k + 1, k + Len(needle)) = needle

\* str(n) for an integer n >= 0.
RECURSIVE str_int(_)
str_int(n) ==
    IF n < 10 THEN << Digits[n + 1] >>
    ELSE str_int(n \div 10) \o << Digits[(n % 10) + 1] >>

\* str(uuid.uuid4()); the n-th identifier drawn is distinct from the others.
UuidPrefix ==
    << "u", "u", "i", "d", "4", "-" >>

uuid4(n) == UuidPrefix \o str_int(n)

(* ----------------------- literals of the source ------------------------ *)

Carbon ==
    << "c", "a", "r", "b", "o", "n" >>

Emission ==
    << "e", "m", "i", "s", "s", "i", "o", "n" >>

ThrottlingException ==
    << "T", "h", "r", "o", "t", "t", "l", "i", "n", "g", "E", "x", "c", "e", "p", "t", "i", "o",
       "n" >>

InputIsRequired ==
    << "I", "n", "p", "u", "t", " ", "i", "s", " ", "r", "e", "q", "u", "i", "r", "e", "d" >>

ExplainPrefix ==
    << "E", "x", "p", "l", "a", "i", "n", " ", "t", "h", "e", "s", "e", " ", "c", "a", "r", "b",
       "o", "n", " ", "e", "m", "i", "s", "s", "i", "o", "n", " ", "c", "a", "l", "c", "u", "l",
       "a", "t", "i", "o", "n", " ", "r", "e", "s", "u", "l", "t", "s", " ", "b", "r", "i", "e",
       "f", "l", "y", " ", "a", "n", "d", " ", "c", "l", "e", "a", "r", "l", "y", ":", " " >>

GuidancePrefix ==
    << "P", "r", "o", "v", "i", "d", "e", " ", "g", "e", "n", "e", "r", "a", "l", " ", "g", "u",
       "i", "d", "a", "n", "c", "e", " ", "a", "b", "o", "u", "t", " ", "c", "a", "r", "b", "o",
       "n", " ", "e", "m", "i", "s", "s", "i", "o", "n", "s", " ", "f", "o", "r", " " >>

GuidanceSuffix ==
    << ".", " ", "K", "e", "e", "p", " ", "i", "t", " ", "b", "r", "i", "e", "f", "." >>

FallbackMessage ==
    << "Y", "o", "u", "r", " ", "r", "e", "q", "u", "e", "s", "t", " ", "h", "a", "s", " ", "b",
       "e", "e", "n", " ", "q", "u", "e", "u", "e", "d", " ", "d", "u", "e", " ", "t", "o", " ",
       "h", "i", "g", "h", " ", "d", "e", "m", "a", "n", "d", ".", " ", "Y", "o", "u", "'", "l",
       "l", " ", "r", "e", "c", "e", "i", "v", "e", " ", "a", " ", "r", "e", "s", "p", "o", "n",
       "s", "e", " ", "s", "h", "o", "r", "t", "l", "y", " ", "v", "i", "a", " ", "o", "u", "r",
       " ", "n", "o", "t", "i", "f", "i", "c", "a", "t", "i", "o", "n", " ", "s", "y", "s", "t",
       "e", "m", ".", " ", "I", "n", " ", "t", "h", "e", " ", "m", "e", "a", "n", "t", "i", "m",
       "e", ",", " ", "h", "e", "r", "e", "'", "s", " ", "s", "o", "m", "e", " ", "g", "e", "n",
       "e", "r", "a", "l", " ", "g", "u", "i", "d", "a", "n", "c", "e", ":", " ", "C", "a", "r",
       "b", "o", "n", " ", "e", "m", "i", "s", "s", "i", "o", "n", "s", " ", "f", "r", "o", "m",
       " ", "e", "l", "e", "c", "t", "r", "i", "c", "i", "t", "y", " ", "u", "s", "a", "g", "e",
       " ", "d", "e", "p", "e", "n", "d", " ", "o", "n", " ", "y", "o", "u", "r", " ", "r", "e",
       "g", "i", "o", "n", "'", "s", " ", "e", "n", "e", "r", "g", "y", " ", "m", "i", "x", " ",
       "a", "n", "d", " ", "t", "h", "e", " ", "t", "i", "m", "e", " ", "o", "f", " ", "c", "o",
       "n", "s", "u", "m", "p", "t", "i", "o", "n", ".", " ", "C", "o", "n", "s", "i", "d", "e",
       "r", " ", "i", "m", "p", "l", "e", "m", "e", "n", "t", "i", "n", "g", " ", "e", "n", "e",
       "r", "g", "y", " ", "e", "f", "f", "i", "c", "i", "e", "n", "c", "y", " ", "m", "e", "a",
       "s", "u", "r", "e", "s", " ", "a", "n", "d", " ", "s", "h", "i", "f", "t", "i", "n", "g",
       " ", "u", "s", "a", "g", "e", " ", "t", "o", " ", "o", "f", "f", "-", "p", "e", "a", "k",
       " ", "h", "o", "u", "r", "s", " ", "w", "h", "e", "n", " ", "p", "o", "s", "s", "i", "b",
       "l", "e", "." >>

(* --------------------- exceptions raised by Python --------------------- *)

\* json.loads(None)
MsgNoneType ==
    << "t", "h", "e", " ", "J", "S", "O", "N", " ", "o", "b", "j", "e", "c", "t", " ", "m", "u",
       "s", "t", " ", "b", "e", " ", "s", "t", "r", ",", " ", "b", "y", "t", "e", "s", " ", "o",
       "r", " ", "b", "y", "t", "e", "a", "r", "r", "a", "y", ",", " ", "n", "o", "t", " ", "N",
       "o", "n", "e", "T", "y", "p", "e" >>

\* json.loads of a body that is not JSON (the empty body included)
MsgDecode ==
    << "E", "x", "p", "e", "c", "t", "i", "n", "g", " ", "v", "a", "l", "u", "e", ":", " ", "l",
       "i", "n", "e", " ", "1", " ", "c", "o", "l", "u", "m", "n", " ", "1", " ", "(", "c", "h",
       "a", "r", " ", "0", ")" >>

\* body.get on a JSON array
MsgListGet ==
    << "'", "l", "i", "s", "t", "'", " ", "o", "b", "j", "e", "c", "t", " ", "h", "a", "s", " ",
       "n", "o", " ", "a", "t", "t", "r", "i", "b", "u", "t", "e", " ", "'", "g", "e", "t", "'" >>

\* user_input.lower() on a JSON number
MsgIntLower ==
    << "'", "i", "n", "t", "'", " ", "o", "b", "j", "e", "c", "t", " ", "h", "a", "s", " ", "n",
       "o", " ", "a", "t", "t", "r", "i", "b", "u", "t", "e", " ", "'", "l", "o", "w", "e", "r",
       "'" >>

(* ------------------------- JSON values --------------------------------- *)

JStr(s) == [t |-> "str", s |-> s, n |-> 0]
JNum(n) == [t |-> "num", s |-> << >>, n |-> n]
JNull == [t |-> "null", s |-> << >>, n |-> 0]

\* Python truth value of a decoded JSON value (`not user_input` is its negation).
truthy(v) ==
    CASE v.t = "str" -> v.s # << >>
      [] v.t = "num" -> v.n # 0
      [] OTHER -> FALSE

(* --------------------------- inbound events ---------------------------- *)

TextHello ==
    << "H", "e", "l", "l", "o" >>

TextCarbon ==
    << "W", "h", "a", "t", "'", "s", " ", "t", "h", "e", " ", "C", "a", "r", "b", "o", "n", " ",
       "f", "o", "o", "t", "p", "r", "i", "n", "t", "?" >>

TextEmission ==
    << "E", "M", "I", "S", "S", "I", "O", "N", " ", "l", "i", "m", "i", "t", "s" >>

TextCarbo ==
    << "c", "a", "r", "b", "o", " ", "e", "m", "i", "s", "s", "i", "o" >>

TextC1 ==
    << "c", "1" >>

InputTexts == {TextHello, TextCarbon, TextEmission, TextCarbo}

\* Values of the `input` field: texts, the empty string, null, the numbers 0 and 5.
InputValues == {JStr(s) : s \in InputTexts} \cup {JStr(<< >>), JNull, JNum(0), JNum(5)}

\* Values of the `conversationId` field when the caller supplies it.
ConversationIdValues == {JStr(TextC1)}

\* A decoded body: an object with optional `input` and `conversationId`, a JSON
\* array, or text that is not JSON.
Object(has_input, input, has_cid, cid) ==
    [kind |-> "object", has_input |-> has_input, input |-> input,
     has_cid |-> has_cid, cid |-> cid]

EmptyObject == Object(FALSE, JNull, FALSE, JNull)
ArrayDoc == [EmptyObject EXCEPT !.kind = "array"]
MalformedDoc == [EmptyObject EXCEPT !.kind = "malformed"]

Objects ==
    {Object(hi, IF hi THEN inp ELSE JNull, hc, IF hc THEN cid ELSE JNull) :
        hi \in BOOLEAN, inp \in InputValues, hc \in BOOLEAN, cid \in ConversationIdValues}

\* event: no `body` key, `body` of None, or `body` text.
Events ==
    {[t |-> "absent", doc |-> EmptyObject], [t |-> "null", doc |-> EmptyObject]}
    \cup {[t |-> "text", doc |-> d] : d \in Objects \cup {ArrayDoc, MalformedDoc}}

\* Concurrent traffic: a plain question, with the caller's conversation
\* identifier or without one.
BackgroundEvents ==
    {[t |-> "text", doc |-> Object(TRUE, JStr(TextHello), hc, IF hc THEN JStr(TextC1) ELSE JNull)] :
        hc \in BOOLEAN}

EventsOf(i) == IF i = 1 THEN Events ELSE BackgroundEvents

(* ---------------------- collaborator outcomes -------------------------- *)

CalcResult ==
    << "{", "'", "c", "o", "2", "_", "k", "g", "'", ":", " ", "4", ".", "2", "}" >>

MsgCalcDown ==
    << "R", "e", "s", "o", "u", "r", "c", "e", "N", "o", "t", "F", "o", "u", "n", "d", "E", "x",
       "c", "e", "p", "t", "i", "o", "n", ":", " ", "F", "u", "n", "c", "t", "i", "o", "n", " ",
       "n", "o", "t", " ", "f", "o", "u", "n", "d" >>

ModelText ==
    << "A", "b", "o", "u", "t", " ", "4", ".", "2", " ", "k", "g", " ", "o", "f", " ", "C", "O",
       "2", "." >>

MsgThrottled ==
    << "A", "n", " ", "e", "r", "r", "o", "r", " ", "o", "c", "c", "u", "r", "r", "e", "d", " ",
       "(", "T", "h", "r", "o", "t", "t", "l", "i", "n", "g", "E", "x", "c", "e", "p", "t", "i",
       "o", "n", ")", ":", " ", "T", "o", "o", " ", "m", "a", "n", "y", " ", "r", "e", "q", "u",
       "e", "s", "t", "s" >>

MsgAccessDenied ==
    << "A", "n", " ", "e", "r", "r", "o", "r", " ", "o", "c", "c", "u", "r", "r", "e", "d", " ",
       "(", "A", "c", "c", "e", "s", "s", "D", "e", "n", "i", "e", "d", "E", "x", "c", "e", "p",
       "t", "i", "o", "n", ")" >>

MsgQueueDown ==
    << "A", "W", "S", ".", "S", "i", "m", "p", "l", "e", "Q", "u", "e", "u", "e", "S", "e", "r",
       "v", "i", "c", "e", ".", "N", "o", "n", "E", "x", "i", "s", "t", "e", "n", "t", "Q", "u",
       "e", "u", "e" >>

MsgTableDown ==
    << "R", "e", "s", "o", "u", "r", "c", "e", "N", "o", "t", "F", "o", "u", "n", "d", "E", "x",
       "c", "e", "p", "t", "i", "o", "n", ":", " ", "T", "a", "b", "l", "e", " ", "n", "o", "t",
       " ", "f", "o", "u", "n", "d" >>

Returns(text) == [ok |-> TRUE, text |-> text]
Raises(msg) == [ok |-> FALSE, text |-> msg]

CalcOutcomes == {Returns(CalcResult), Raises(MsgCalcDown)}
BedrockOutcomes ==
    {Returns(ModelText), Raises(MsgThrottled), Raises(MsgAccessDenied)}
SqsOutcomes == {Returns(<< >>), Raises(MsgQueueDown)}
DynamoOutcomes == {Returns(<< >>), Raises(MsgTableDown)}

(* ------------------------------- state --------------------------------- *)

VARIABLES
    pc,               \* per invocation: "idle", "calc", "bedrock", "sqs", "dynamodb", "done"
    event,            \* per invocation: the event it was invoked with
    user_input,       \* per invocation: local user_input
    conversation_id,  \* per invocation: local conversation_id
    prompt,           \* per invocation: the prompt handed to invoke_bedrock_with_queue
    exc,              \* per invocation: the exception being handled in invoke_bedrock_with_queue
    result,           \* per invocation: local result
    response,         \* per invocation: what lambda_handler returned
    calls,            \* per invocation: the collaborator calls made so far, in order
    table,            \* DynamoDB table carbon-assistant-data: its items
    queue,            \* SQS queue carbon-bedrock-queue: the messages published, in order
    now,              \* wall clock, milliseconds
    uuids             \* number of uuid4 identifiers drawn so far

vars ==
    << pc, event, user_input, conversation_id, prompt, exc, result, response, calls,
       table, queue, now, uuids >>

NoResult == [status |-> "none", response |-> << >>]
NoResponse == [statusCode |-> 0, headers |-> {}, body |-> [error |-> << >>]]

Init ==
    /\ pc = [i \in Invocations |-> "idle"]
    /\ event = [i \in Invocations |-> [t |-> "absent", doc |-> EmptyObject]]
    /\ user_input = [i \in Invocations |-> JNull]
    /\ conversation_id = [i \in Invocations |-> JNull]
    /\ prompt = [i \in Invocations |-> << >>]
    /\ exc = [i \in Invocations |-> << >>]
    /\ result = [i \in Invocations |-> NoResult]
    /\ response = [i \in Invocations |-> NoResponse]
    /\ calls = [i \in Invocations |-> << >>]
    /\ table = {}
    /\ queue = << >>
    /\ now = 0
    /\ uuids = 0

(* ------------------------ pieces of the handler ------------------------ *)

\* event.get('body', '{}')
event_get_body(ev) ==
    IF ev.t = "absent" THEN [t |-> "text", doc |-> EmptyObject] ELSE ev

\* What json.loads(...) and the first body.get raise, << >> when they raise nothing.
body_error(b) ==
    CASE b.t = "null" -> MsgNoneType
      [] b.doc.kind = "malformed" -> MsgDecode
      [] b.doc.kind = "array" -> MsgListGet
      [] OTHER -> << >>

\* body.get('input', '')
get_input(doc) == IF doc.has_input THEN doc.input ELSE JStr(<< >>)

\* Mutant: always uses the generated identifier, ignoring the caller's.
get_conversation_id_ignoring_caller(doc, fresh) == JStr(fresh)

\* body.get('conversationId', str(uuid.uuid4()))
get_conversation_id(doc, fresh) == IF doc.has_cid THEN doc.cid ELSE JStr(fresh)

\* Mutant: the keyword test without lower().
is_carbon_query_case_sensitive(text) ==
    contains(Carbon, text) \/ contains(Emission, text)

\* "carbon" in user_input.lower() or "emission" in user_input.lower()
is_carbon_query(text) ==
    contains(Carbon, lower(text)) \/ contains(Emission, lower(text))

\* Mutant: the results prompt is built from whatever the calculation call gave,
\* its error included.
calc_prompt_from_error(out, text) == ExplainPrefix \o out.text

\* The prompt of the calculation path: the results prompt, or the guidance prompt
\* when invoke_calculation_agent raised.
calc_prompt(out, text) ==
    IF out.ok THEN ExplainPrefix \o out.text
    ELSE GuidancePrefix \o text \o GuidanceSuffix

\* Mutant: every failure of the inference call is treated as throttling.
is_throttled_always(msg) == TRUE

\* "ThrottlingException" in str(e)
is_throttled(msg) == contains(ThrottlingException, msg)

\* Mutant: the fallback result is tagged "direct".
queued_result_tagged_direct == [status |-> "direct", response |-> FallbackMessage]

direct_result(text) == [status |-> "direct", response |-> text]
queued_result == [status |-> "queued", response |-> FallbackMessage]

\* Mutant: the queue's exception is raised instead of the one being handled.
reraised_queue_error(e, qe) == qe

\* The bare `raise` of invoke_bedrock_with_queue after enqueue_request returned
\* False: e is the exception being handled, qe the one enqueue_request swallowed.
reraised(e, qe) == e

\* message_body of enqueue_request
message_body(p, cid, ts) == [prompt |-> p, conversation_id |-> cid, timestamp |-> ts]

\* item of store_conversation
conversation_item(cid, input, resp, ts) ==
    [conversationId |-> cid, timestamp |-> ts, userInput |-> input,
     response |-> resp, type |-> "conversation"]

\* Primary key of the table: conversation identifier and timestamp.
item_key(it) == << it.conversationId, it.timestamp >>

\* table.put_item(Item=item): creates the item, or replaces the item with its key.
put_item(items, it) == {x \in items : item_key(x) # item_key(it)} \cup {it}

\* Mutant: every returned result is stored.
should_store_any(r) == r.status \in {"direct", "queued"}

\* if result['status'] == 'direct'
should_store(r) == r.status = "direct"

success_response(r, cid) ==
    [statusCode |-> 200,
     headers |-> {"Content-Type", "Access-Control-Allow-Origin"},
     body |-> [response |-> r.response, conversationId |-> cid, status |-> r.status]]

error_response(code, msg) ==
    [statusCode |-> code, headers |-> {"Content-Type"}, body |-> [error |-> msg]]

\* Mutant: store_conversation lets the exception of put_item escape.
response_after_store_raising(r, cid, failed, msg) ==
    IF failed THEN error_response(500, msg) ELSE success_response(r, cid)

\* What lambda_handler returns once store_conversation came back; failed tells
\* whether put_item raised (store_conversation swallows it).
response_after_store(r, cid, failed, msg) == success_response(r, cid)

Call(svc, arg, out) == [svc |-> svc, arg |-> arg, ok |-> out.ok, out |-> out.text]

timestamp == str_int(now)

(* ------------------------------ actions -------------------------------- *)

\* lambda_handler, lines 110-134: from the event to the first collaborator call.
lambda_handler(i, ev) ==
    /\ pc[i] = "idle"
    /\ event' = [event EXCEPT ![i] = ev]
    /\ LET b == event_get_body(ev)
           err == body_error(b)
           input == get_input(b.doc)
           cid == get_conversation_id(b.doc, uuid4(uuids + 1))
       IN  IF err # << >>
           THEN /\ response' = [response EXCEPT ![i] = error_response(500, err)]
                /\ pc' = [pc EXCEPT ![i] = "done"]
                /\ UNCHANGED << user_input, conversation_id, prompt, uuids >>
           ELSE /\ user_input' = [user_input EXCEPT ![i] = input]
                /\ conversation_id' = [conversation_id EXCEPT ![i] = cid]
                /\ uuids' = uuids + 1
                /\ IF ~truthy(input)
                   THEN /\ response' =
                            [response EXCEPT ![i] = error_response(400, InputIsRequired)]
                        /\ pc' = [pc EXCEPT ![i] = "done"]
                        /\ UNCHANGED prompt
                   ELSE IF input.t # "str"
                   THEN /\ response' =
                            [response EXCEPT ![i] = error_response(500, MsgIntLower)]
                        /\ pc' = [pc EXCEPT ![i] = "done"]
                        /\ UNCHANGED prompt
                   ELSE IF is_carbon_query(input.s)
                   THEN /\ pc' = [pc EXCEPT ![i] = "calc"]
                        /\ UNCHANGED << prompt, response >>
                   ELSE /\ prompt' = [prompt EXCEPT ![i] = input.s]
                        /\ pc' = [pc EXCEPT ![i] = "bedrock"]
                        /\ UNCHANGED response
    /\ UNCHANGED << exc, result, calls, table, queue, now >>

\* invoke_calculation_agent and lines 125-129 of lambda_handler.
invoke_calculation_agent(i, out) ==
    /\ pc[i] = "calc"
    /\ calls' = [calls EXCEPT ![i] = Append(@, Call("lambda", [query |-> user_input[i].s], out))]
    /\ prompt' = [prompt EXCEPT ![i] = calc_prompt(out, user_input[i].s)]
    /\ pc' = [pc EXCEPT ![i] = "bedrock"]
    /\ UNCHANGED << event, user_input, conversation_id, exc, result, response,
                    table, queue, now, uuids >>

\* Lines 136-151 of lambda_handler, up to the store_conversation call: r is
\* what invoke_bedrock_with_queue returned.
Returned(i, r) ==
    /\ result' = [result EXCEPT ![i] = r]
    /\ IF should_store(r)
       THEN /\ pc' = [pc EXCEPT ![i] = "dynamodb"]
            /\ UNCHANGED response
       ELSE /\ pc' = [pc EXCEPT ![i] = "done"]
            /\ response' = [response EXCEPT ![i] = success_response(r, conversation_id[i])]

\* Lines 153-158 of lambda_handler: an exception reached the handler boundary.
Raised(i, msg) ==
    /\ response' = [response EXCEPT ![i] = error_response(500, msg)]
    /\ pc' = [pc EXCEPT ![i] = "done"]
    /\ UNCHANGED result

\* invoke_bedrock_with_queue, lines 60-88: the bedrock.invoke_model call.
invoke_bedrock_with_queue(i, out) ==
    /\ pc[i] = "bedrock"
    /\ calls' = [calls EXCEPT ![i] =
                    Append(@, Call("bedrock",
                                   [prompt |-> prompt[i],
                                    conversation_id |-> conversation_id[i]], out))]
    /\ IF out.ok
       THEN Returned(i, direct_result(out.text)) /\ UNCHANGED exc
       ELSE IF is_throttled(out.text)
       THEN /\ exc' = [exc EXCEPT ![i] = out.text]
            /\ pc' = [pc EXCEPT ![i] = "sqs"]
            /\ UNCHANGED << result, response >>
       ELSE Raised(i, out.text) /\ UNCHANGED exc
    /\ UNCHANGED << event, user_input, conversation_id, prompt, table, queue, now, uuids >>

\* enqueue_request and lines 89-94 of invoke_bedrock_with_queue.
enqueue_request(i, out) ==
    /\ pc[i] = "sqs"
    /\ LET msg == message_body(prompt[i], conversation_id[i], timestamp)
       IN  /\ calls' = [calls EXCEPT ![i] = Append(@, Call("sqs", msg, out))]
           /\ IF out.ok
              THEN /\ queue' = Append(queue, msg)
                   /\ Returned(i, queued_result)
              ELSE /\ UNCHANGED queue
                   /\ Raised(i, reraised(exc[i], out.text))
    /\ UNCHANGED << event, user_input, conversation_id, prompt, exc, table, now, uuids >>

\* store_conversation and lines 140-151 of lambda_handler.
store_conversation(i, out) ==
    /\ pc[i] = "dynamodb"
    /\ LET it == conversation_item(conversation_id[i], user_input[i],
                                   result[i].response, timestamp)
       IN  /\ calls' = [calls EXCEPT ![i] = Append(@, Call("dynamodb", it, out))]
           /\ table' = IF out.ok THEN put_item(table, it) ELSE table
    /\ response' = [response EXCEPT ![i] =
                       response_after_store(result[i], conversation_id[i], ~out.ok, out.text)]
    /\ pc' = [pc EXCEPT ![i] = "done"]
    /\ UNCHANGED << event, user_input, conversation_id, prompt, exc, result,
                    queue, now, uuids >>

\* One millisecond passes.
Tick ==
    /\ now < MaxClock
    /\ now' = now + 1
    /\ UNCHANGED << pc, event, user_input, conversation_id, prompt, exc, result,
                    response, calls, table, queue, uuids >>

\* The invocations of the concurrent traffic are numbered in the order they arrive.
InOrder(i) == \A j \in 2..(i - 1) : pc[j] # "idle"

Next ==
    \/ \E i \in Invocations : \E ev \in EventsOf(i) : InOrder(i) /\ lambda_handler(i, ev)
    \/ \E i \in Invocations, out \in CalcOutcomes : invoke_calculation_agent(i, out)
    \/ \E i \in Invocations, out \in BedrockOutcomes : invoke_bedrock_with_queue(i, out)
    \/ \E i \in Invocations, out \in SqsOutcomes : enqueue_request(i, out)
    \/ \E i \in Invocations, out \in DynamoOutcomes : store_conversation(i, out)
    \/ Tick

Spec == Init /\ [][Next]_vars


(* ------------------------- reading the history ------------------------- *)

Done(i) == pc[i] = "done"

CallsTo(i, svc) == SelectSeq(calls[i], LAMBDA c : c.svc = svc)
NumCalls(i, svc) == Len(CallsTo(i, svc))

\* The (first) call invocation i made to a service.
BedrockCall(i) == CallsTo(i, "bedrock")[1]
SqsCall(i) == CallsTo(i, "sqs")[1]
LambdaCall(i) == CallsTo(i, "lambda")[1]
DynamoCall(i) == CallsTo(i, "dynamodb")[1]

\* Number of calls to a service, over all invocations, that succeeded.
RECURSIVE Succeeded(_, _)
Succeeded(svc, n) ==
    IF n = 0 THEN 0
    ELSE Succeeded(svc, n - 1) + Len(SelectSeq(calls[n], LAMBDA c : c.svc = svc /\ c.ok))

\* The inference failures that are overload conditions, listed by hand.
OverloadMessages == {MsgThrottled}

\* The inference call of invocation i failed with an overload condition.
Overloaded(i) ==
    /\ NumCalls(i, "bedrock") >= 1
    /\ ~BedrockCall(i).ok
    /\ BedrockCall(i).out \in OverloadMessages

\* The event of invocation i carries a non-empty text `input`.
HasTextInput(i) ==
    /\ pc[i] # "idle"
    /\ event[i].t = "text"
    /\ event[i].doc.kind = "object"
    /\ event[i].doc.has_input
    /\ event[i].doc.input.t = "str"
    /\ event[i].doc.input.s # << >>

InputText(i) == event[i].doc.input.s

\* The lowercased text contains "carbon" or "emission".
HasKeyword(s) == \E w \in {Carbon, Emission} : contains(w, lower(s))

\* The input texts that do.
KeywordTexts == {s \in InputTexts : HasKeyword(s)}

\* The caller supplied a conversationId.
SuppliedId(i) ==
    /\ pc[i] # "idle"
    /\ event[i].t = "text"
    /\ event[i].doc.kind = "object"
    /\ event[i].doc.has_cid

\* The event of invocation i has no body, or a body whose `input` is missing,
\* empty or null.
InputEmptyOrMissing(i) ==
    /\ pc[i] # "idle"
    /\ \/ event[i].t \in {"absent", "null"}
       \/ /\ event[i].t = "text"
          /\ event[i].doc.kind = "object"
          /\ \/ ~event[i].doc.has_input
             \/ event[i].doc.input \in {JStr(<< >>), JNull}

(* ------------------------------- claims -------------------------------- *)

\* C1: in every invocation store_conversation is invoked if and only if
\* invoke_bedrock_with_queue returned a result with status "direct": it is invoked
\* (once) by the time the handler returns a direct result, never when the result
\* is "queued", and never when the inference call raised or was not made.
C1_StoreIffDirect ==
    \A i \in Invocations :
        /\ NumCalls(i, "dynamodb") >= 1 => result[i].status = "direct"
        /\ Done(i) /\ result[i].status = "direct" => NumCalls(i, "dynamodb") = 1
        /\ result[i].status = "queued" => NumCalls(i, "dynamodb") = 0
        /\ NumCalls(i, "bedrock") >= 1 /\ ~BedrockCall(i).ok => NumCalls(i, "dynamodb") = 0

\* One invocation returned a direct result and stored it, another returned a
\* queued result.
C1_Witness ==
    \E i, j \in Invocations :
        /\ Done(i) /\ result[i].status = "direct" /\ NumCalls(i, "dynamodb") = 1
        /\ Done(j) /\ result[j].status = "queued"

\* C2: when the inference call fails with an overload condition and the queue
\* publish succeeds, the handler returns 200 with status "queued" and the fixed
\* fallback message, exactly one message was published, carrying the prompt passed
\* to the inference call and the conversation identifier, and nothing is stored.
C2_QueuedFallback ==
    /\ Len(queue) = Succeeded("sqs", NumInvocations)
    /\ \A i \in Invocations :
        Done(i) /\ Overloaded(i) /\ NumCalls(i, "sqs") >= 1 /\ SqsCall(i).ok =>
            /\ response[i].statusCode = 200
            /\ response[i].body.status = "queued"
            /\ response[i].body.response = FallbackMessage
            /\ NumCalls(i, "sqs") = 1
            /\ SqsCall(i).arg.prompt = BedrockCall(i).arg.prompt
            /\ SqsCall(i).arg.conversation_id = conversation_id[i]
            /\ \E k \in 1..Len(queue) : queue[k] = SqsCall(i).arg
            /\ NumCalls(i, "dynamodb") = 0

\* An invocation on the calculation path was throttled and queued.
C2_Witness ==
    \E i \in Invocations :
        /\ Done(i) /\ Overloaded(i) /\ NumCalls(i, "sqs") = 1 /\ SqsCall(i).ok
        /\ NumCalls(i, "lambda") = 1
        /\ Len(queue) >= 1

\* C3: when the inference call fails with an overload condition and the queue
\* publish fails, the handler returns 500 carrying the message of the overload
\* exception, not the queue's; no status is returned and nothing is stored.
C3_OverloadPropagates ==
    \A i \in Invocations :
        Done(i) /\ Overloaded(i) /\ NumCalls(i, "sqs") >= 1 /\ ~SqsCall(i).ok =>
            /\ response[i].statusCode = 500
            /\ response[i].body.error = BedrockCall(i).out
            /\ response[i].body.error # SqsCall(i).out
            /\ result[i].status = "none"
            /\ NumCalls(i, "dynamodb") = 0

C3_Witness ==
    \E i \in Invocations :
        /\ Done(i) /\ Overloaded(i) /\ NumCalls(i, "sqs") = 1 /\ ~SqsCall(i).ok
        /\ queue = << >>

\* C4: an inference failure that is not an overload condition is re-raised at
\* once: no queue publish, no second inference call, a 500 response with that
\* failure's message.  A queue publish happens at most once per invocation and
\* only right after an inference call that failed with an overload condition.
C4_OtherFailuresRaise ==
    \A i \in Invocations :
        /\ NumCalls(i, "bedrock") <= 1
        /\ NumCalls(i, "sqs") <= 1
        /\ NumCalls(i, "bedrock") = 1 /\ ~BedrockCall(i).ok /\ ~Overloaded(i) =>
            /\ Done(i)
            /\ NumCalls(i, "sqs") = 0
            /\ response[i].statusCode = 500
            /\ response[i].body.error = BedrockCall(i).out
        /\ \A k \in 1..Len(calls[i]) :
            calls[i][k].svc = "sqs" =>
                /\ k > 1
                /\ calls[i][k - 1].svc = "bedrock"
                /\ ~calls[i][k - 1].ok
                /\ calls[i][k - 1].out \in OverloadMessages

C4_Witness ==
    \E i \in Invocations :
        /\ Done(i) /\ NumCalls(i, "bedrock") = 1 /\ ~BedrockCall(i).ok /\ ~Overloaded(i)
        /\ response[i].statusCode = 500

\* C5: for a non-empty text input whose lowercased form contains "carbon" or
\* "emission", the calculation agent is invoked exactly once and before the single
\* inference call; for one that contains neither, the calculation agent is never
\* invoked and the inference call receives the raw input as its prompt.
C5_KeywordRouting ==
    \A i \in Invocations :
        HasTextInput(i) =>
            /\ NumCalls(i, "lambda") <= 1
            /\ NumCalls(i, "bedrock") <= 1
            /\ Done(i) => NumCalls(i, "bedrock") = 1
            /\ IF InputText(i) \in KeywordTexts
               THEN /\ Done(i) => NumCalls(i, "lambda") = 1
                    /\ NumCalls(i, "bedrock") = 1 =>
                        /\ Len(calls[i]) >= 2
                        /\ calls[i][1].svc = "lambda"
                        /\ calls[i][1].arg.query = InputText(i)
                        /\ calls[i][2].svc = "bedrock"
               ELSE /\ NumCalls(i, "lambda") = 0
                    /\ NumCalls(i, "bedrock") = 1 =>
                        BedrockCall(i).arg.prompt = InputText(i)

\* "EMISSION limits" went through the calculation agent and then the inference call.
C5_Witness ==
    \E i \in Invocations :
        /\ Done(i) /\ HasTextInput(i) /\ InputText(i) = TextEmission
        /\ NumCalls(i, "lambda") = 1 /\ NumCalls(i, "bedrock") = 1

\* C6: when the calculation agent fails, the inference call is still made exactly
\* once, with the guidance prompt built from the user's text, and the response is
\* decided by the inference outcome alone: the calculation error is not in it.
C6_CalculationFailureDegrades ==
    \A i \in Invocations :
        Done(i) /\ NumCalls(i, "lambda") >= 1 /\ ~LambdaCall(i).ok =>
            /\ NumCalls(i, "bedrock") = 1
            /\ BedrockCall(i).arg.prompt = GuidancePrefix \o InputText(i) \o GuidanceSuffix
            /\ ~contains(LambdaCall(i).out, BedrockCall(i).arg.prompt)
            /\ IF BedrockCall(i).ok
               THEN /\ response[i].statusCode = 200
                    /\ response[i].body.status = "direct"
                    /\ response[i].body.response = BedrockCall(i).out
               ELSE IF NumCalls(i, "sqs") = 1 /\ SqsCall(i).ok
               THEN /\ response[i].statusCode = 200
                    /\ response[i].body.status = "queued"
                    /\ response[i].body.response = FallbackMessage
               ELSE /\ response[i].statusCode = 500
                    /\ response[i].body.error = BedrockCall(i).out
                    /\ response[i].body.error # LambdaCall(i).out

C6_Witness ==
    \E i \in Invocations :
        /\ Done(i) /\ NumCalls(i, "lambda") = 1 /\ ~LambdaCall(i).ok
        /\ response[i].statusCode = 200 /\ response[i].body.status = "direct"

\* C7: every event whose `input` is empty or missing (no body, or no `input`
\* field included) gets a 400 response and no collaborator is called.
C7_EmptyInputRejected ==
    \A i \in Invocations :
        Done(i) /\ InputEmptyOrMissing(i) =>
            /\ response[i].statusCode = 400
            /\ calls[i] = << >>

\* C8: a failure of the store never blocks or changes the response: a direct
\* result is returned as 200 / "direct" with the model's text whether put_item
\* succeeded or failed, and the store is attempted at most once.
C8_StoreFailureSwallowed ==
    \A i \in Invocations :
        /\ NumCalls(i, "dynamodb") <= 1
        /\ Done(i) /\ result[i].status = "direct" =>
            /\ response[i].statusCode = 200
            /\ response[i].body.status = "direct"
            /\ response[i].body.response = BedrockCall(i).out

C8_Witness ==
    \E i \in Invocations :
        /\ Done(i) /\ NumCalls(i, "dynamodb") = 1 /\ ~DynamoCall(i).ok
        /\ response[i].statusCode = 200

\* C9: in a success response the conversationId is the caller's, unchanged, when
\* one was supplied; otherwise it is a generated, non-empty identifier that no
\* other invocation generated.  The same identifier was passed to the inference
\* call, written into the stored item and placed in the queued message.
C9_ConversationIdEchoed ==
    \A i \in Invocations :
        response[i].statusCode = 200 =>
            /\ IF SuppliedId(i)
               THEN response[i].body.conversationId = event[i].doc.cid
               ELSE /\ response[i].body.conversationId.t = "str"
                    /\ response[i].body.conversationId.s # << >>
                    /\ \A j \in Invocations \ {i} :
                        conversation_id[j] # response[i].body.conversationId
            /\ \A k \in 1..Len(calls[i]) :
                /\ calls[i][k].svc \in {"bedrock", "sqs"} =>
                    calls[i][k].arg.conversation_id = response[i].body.conversationId
                /\ calls[i][k].svc = "dynamodb" =>
                    calls[i][k].arg.conversationId = response[i].body.conversationId

\* Two invocations without a conversationId both succeeded, one stored and one
\* queued.
C9_Witness ==
    \E i, j \in Invocations :
        /\ i # j
        /\ response[i].statusCode = 200 /\ ~SuppliedId(i) /\ NumCalls(i, "dynamodb") = 1
        /\ response[j].statusCode = 200 /\ ~SuppliedId(j) /\ NumCalls(j, "sqs") = 1

\* C10: the table is append-only: no stored item is ever replaced or removed, so
\* every store that succeeded contributed one item of its own, also when two
\* exchanges of one conversation are stored with the same timestamp.
C10_AppendOnly ==
    Cardinality(table) = Succeeded("dynamodb", NumInvocations)

====
